---- MODULE Spec2Model ----
(***************************************************************************)
(* Reconciliation of a generator's scoring response against a rubric:      *)
(* grader_engine/text_grader.py (grade_answer, _align_and_clamp) and       *)
(* pages/2_grading_result.py (_align_to_rubric, _dedupe_feedback).         *)
(*                                                                         *)
(* Python values are tagged records [t |-> tag, v |-> payload]; a string   *)
(* is a sequence of one-character strings; a float is kept as a count of   *)
(* halves (v = 2 * x), which is exact for the values used here.            *)
(***************************************************************************)
EXTENDS Integers, Sequences, FiniteSets, TLC

VARIABLES
    pc,             \* position of grade_answer
    rubric,         \* the rubric argument (list of {criteria, points})
    include_header, \* the include_header_in_feedback argument
    raw,            \* the generator's raw response
    parsed,         \* the value held by `parsed`
    aligned,        \* the aligned list of {criteria, score}
    sanity,         \* the sanity report
    total_awarded,  \* the recomputed total
    full_feedback,  \* the final feedback string
    result,         \* the returned dictionary
    a_breakdown,    \* alignment check: the raw breakdown handed to alignment
    a_fn,           \* alignment check: which alignment ran
    a_out,          \* alignment check: the list it returned
    d_text,         \* de-duplication check: the input text
    d_once,         \* de-duplication check: _dedupe_feedback(text)
    d_twice,        \* de-duplication check: _dedupe_feedback of that
    d_pc,           \* de-duplication check: how many times it ran
    t_raw,          \* two gradings: the pair of raw responses
    t_out,          \* two gradings: what grade_answer and the page made of each
    c_in,           \* coercion check: the raw score
    c_fn,           \* coercion check: which coercion ran
    c_out,          \* coercion check: the integer it returned
    p_pc,           \* results page: position of the session
    p_scores,       \* results page: stored["rubric_scores"] of the shown result
    p_db,           \* results page: the grading_results row and its corrections
    result_shares,  \* the rows of table result_shares, in insertion order
    s_call,         \* sharing: the last call made
    s_before,       \* sharing: the rows before that call
    a_again,        \* alignment check: the page's alignment of a_out
    m_word,         \* fuzzy match: the normalised criterion name looked up
    m_keys,         \* fuzzy match: the normalised labels, in list order
    m_out,          \* fuzzy match: what get_close_matches returned
    grading_results,     \* the rows of table grading_results, as committed
    grading_corrections, \* the rows of table grading_corrections, as committed
    db_call,        \* database: the call in progress or last made
    db_before,      \* database: both tables before that call
    k_inputs,       \* results page: the inputs held by the session
    k_cache,        \* results page: st.session_state["grading_cache"]
    k_graded,       \* results page: how often each task was graded and upserted
    k_last,         \* results page: what the last run of the page did
    sessions        \* concurrent sharing: each session's share_result call

vars == <<pc, rubric, include_header, raw, parsed, aligned, sanity, total_awarded,
          full_feedback, result, a_breakdown, a_fn, a_out, d_text, d_once, d_twice, d_pc,
          t_raw, t_out, c_in, c_fn, c_out, p_pc, p_scores, p_db,
          result_shares, s_call, s_before, a_again, m_word, m_keys, m_out,
          grading_results, grading_corrections, db_call, db_before,
          k_inputs, k_cache, k_graded, k_last, sessions>>

----------------------------------------------------------------------------
(* Bounds *)

MaxRubric == 2      \* criteria per rubric
MaxEntries == 2     \* entries per raw breakdown
MaxPts == 2         \* largest points value of a criterion
MaxText == 5        \* characters of a feedback text handed to de-duplication
MaxSaves == 2       \* presses of "save changes" on the results page
MaxResultId == 2    \* ids of the grading results that can be shared
MaxRaw == 5         \* largest magnitude of a raw score handed to coercion
MaxDigits == 3      \* characters of a raw score given as text

MaxDbCalls == 3     \* calls made on the database handler in one behaviour

MaxSessions == 2    \* sessions that call share_result at the same time

----------------------------------------------------------------------------
(* Python values *)

PyInt(n) == [t |-> "int", v |-> n]
PyFloat(h) == [t |-> "float", v |-> h]
PyStr(s) == [t |-> "str", v |-> s]
PyList(l) == [t |-> "list", v |-> l]
PyDict(d) == [t |-> "dict", v |-> d]
PyNone == [t |-> "none", v |-> 0]

EmptyDict == PyDict(<<>>)

\* dict.get(key, default)
Get(d, key, default) == IF key \in DOMAIN d.v THEN d.v[key] ELSE default

\* truth value of a Python object, as used by `x or y`
Truthy(x) ==
    CASE x.t = "none" -> FALSE
      [] x.t = "int" -> x.v # 0
      [] x.t = "float" -> x.v # 0
      [] x.t = "str" -> x.v # <<>>
      [] x.t = "list" -> x.v # <<>>
      [] x.t = "dict" -> DOMAIN x.v # {}
      [] OTHER -> TRUE

Min(a, b) == IF a < b THEN a ELSE b
Max(a, b) == IF a > b THEN a ELSE b

\* F applied to the value of e, with e evaluated once
Let(F(_), e) == CHOOSE y \in {F(x) : x \in {e}} : TRUE

RECURSIVE SumSeq(_)
SumSeq(s) == IF s = <<>> THEN 0 ELSE Head(s) + SumSeq(Tail(s))

\* every sequence over S of length at most n
SeqsUpTo(S, n) == UNION {[1..k -> S] : k \in 0..n}

----------------------------------------------------------------------------
(* Characters and strings *)

Str2(a, b) == <<a, b>>
Str3(a, b, c) == <<a, b, c>>

IsSpace(c) == c \in {" ", "\n"}

\* str.lower() on one character
LowerChar(c) ==
    CASE c = "A" -> "a"
      [] c = "B" -> "b"
      [] c = "G" -> "g"
      [] OTHER -> c

Lower(s) == [i \in 1..Len(s) |-> LowerChar(s[i])]

\* code point order of the characters used
Ord(c) ==
    CASE c = "\n" -> 10
      [] c = " " -> 32
      [] c = "!" -> 33
      [] c = "-" -> 45
      [] c = "." -> 46
      [] c = "0" -> 48
      [] c = "1" -> 49
      [] c = "2" -> 50
      [] c = "3" -> 51
      [] c = "4" -> 52
      [] c = "5" -> 53
      [] c = "6" -> 54
      [] c = "7" -> 55
      [] c = "8" -> 56
      [] c = "9" -> 57
      [] c = "A" -> 65
      [] c = "B" -> 66
      [] c = "G" -> 71
      [] c = "a" -> 97
      [] c = "b" -> 98
      [] c = "c" -> 99
      [] c = "d" -> 100
      [] c = "g" -> 103
      [] c = "x" -> 120
      [] OTHER -> 127

\* str < str
RECURSIVE StrLess(_, _)
StrLess(x, y) ==
    IF y = <<>> THEN FALSE
    ELSE IF x = <<>> THEN TRUE
    ELSE IF Ord(Head(x)) # Ord(Head(y)) THEN Ord(Head(x)) < Ord(Head(y))
    ELSE StrLess(Tail(x), Tail(y))

\* str.strip()
RECURSIVE LStrip(_)
LStrip(s) ==
    IF s # <<>> /\ IsSpace(Head(s)) THEN LStrip(Tail(s)) ELSE s

RECURSIVE RStrip(_)
RStrip(s) ==
    IF s # <<>> /\ IsSpace(s[Len(s)]) THEN RStrip(SubSeq(s, 1, Len(s) - 1)) ELSE s

Strip(s) == RStrip(LStrip(s))

\* re.sub(r"\s+", " ", s)
RECURSIVE CollapseSpace(_)
CollapseSpace(s) ==
    IF s = <<>> THEN <<>>
    ELSE IF IsSpace(Head(s))
         THEN <<" ">> \o CollapseSpace(LStrip(s))
         ELSE <<Head(s)>> \o CollapseSpace(Tail(s))

\* _normalize / _normalize_criteria: re.sub(r"\s+", " ", (s or "").strip().lower());
\* a truthy value that is not a string has no strip() and raises
NormalizeRaises(x) == Truthy(x) /\ x.t # "str"

_normalize(x) ==
    IF ~Truthy(x) THEN <<>> ELSE CollapseSpace(Lower(Strip(x.v)))

----------------------------------------------------------------------------
(* difflib.SequenceMatcher(a, b).ratio() and difflib.get_close_matches *)

\* the blocks a[i+1..i+k] = b[j+1..j+k] inside a[alo+1..ahi], b[blo+1..bhi]
Blocks(a, b, alo, ahi, blo, bhi) ==
    {blk \in (alo..(ahi - 1)) \X (blo..(bhi - 1)) \X (1..Max(ahi - alo, 0)) :
        /\ blk[1] + blk[3] <= ahi
        /\ blk[2] + blk[3] <= bhi
        /\ \A x \in 0..(blk[3] - 1) : a[blk[1] + x + 1] = b[blk[2] + x + 1]}

\* find_longest_match: longest, then earliest in a, then earliest in b
BlockBetter(x, y) ==
    \/ x[3] > y[3]
    \/ x[3] = y[3] /\ x[1] < y[1]
    \/ x[3] = y[3] /\ x[1] = y[1] /\ x[2] < y[2]

find_longest_match(a, b, alo, ahi, blo, bhi) ==
    LET bs == Blocks(a, b, alo, ahi, blo, bhi)
    IN  CHOOSE x \in bs : \A y \in bs \ {x} : BlockBetter(x, y)

\* get_matching_blocks: the sum of the sizes of the matching blocks
RECURSIVE MatchSize(_, _, _, _, _, _)
MatchSize(a, b, alo, ahi, blo, bhi) ==
    IF Blocks(a, b, alo, ahi, blo, bhi) = {} THEN 0
    ELSE LET m == find_longest_match(a, b, alo, ahi, blo, bhi)
         IN  m[3] + MatchSize(a, b, alo, m[1], blo, m[2])
                  + MatchSize(a, b, m[1] + m[3], ahi, m[2] + m[3], bhi)

\* ratio() = 2.0 * matches / (len(a) + len(b)), kept as <<numerator, denominator>>;
\* 1.0 when both are empty
Ratio(a, b) ==
    IF Len(a) + Len(b) = 0 THEN <<1, 1>>
    ELSE <<2 * MatchSize(a, b, 0, Len(a), 0, Len(b)), Len(a) + Len(b)>>

RatioLess(r, s) == r[1] * s[2] < s[1] * r[2]

\* fuzzy_cutoff = 0.60, as tenths
FuzzyCutoffTenths == 6

MeetsCutoff(r) == r[1] * 10 >= FuzzyCutoffTenths * r[2]

\* heapq.nlargest(1, [(ratio, x), ...]): the largest (ratio, x) tuple
TupleLess(p, q) ==
    \/ RatioLess(p[1], q[1])
    \/ ~RatioLess(q[1], p[1]) /\ StrLess(p[2], q[2])

\* the first listed possibility that meets the cutoff, instead of the best
get_close_matches_first(word, possibilities) ==
    LET good == {i \in 1..Len(possibilities) : MeetsCutoff(Ratio(possibilities[i], word))}
    IN  IF good = {} THEN <<>>
        ELSE <<possibilities[CHOOSE i \in good : \A j \in good : i <= j]>>

\* get_close_matches(word, possibilities, n=1, cutoff): <<best>> or <<>>
get_close_matches(word, possibilities) ==
    LET scored == {<<Ratio(x, w), x>> :
                       x \in {possibilities[i] : i \in 1..Len(possibilities)}, w \in {word}}
        good == {p \in scored : MeetsCutoff(p[1])}
    IN  IF good = {} THEN <<>>
        ELSE <<(CHOOSE p \in good : \A q \in good : ~TupleLess(p, q))[2]>>

----------------------------------------------------------------------------
(* Numeric coercion *)

PyNaN == [t |-> "nan", v |-> 0]     \* float("nan"): a float that round() rejects

DigitVal(c) ==
    CASE c = "0" -> 0
      [] c = "1" -> 1
      [] c = "2" -> 2
      [] c = "3" -> 3
      [] c = "4" -> 4
      [] c = "5" -> 5
      [] c = "6" -> 6
      [] c = "7" -> 7
      [] c = "8" -> 8
      [] c = "9" -> 9
      [] OTHER -> -1

IsDigits(s) == s # <<>> /\ \A i \in 1..Len(s) : DigitVal(s[i]) >= 0

RECURSIVE DigitsVal(_)
DigitsVal(s) ==
    IF s = <<>> THEN 0 ELSE 10 * DigitsVal(SubSeq(s, 1, Len(s) - 1)) + DigitVal(s[Len(s)])

\* int(str): surrounding whitespace, an optional sign, decimal digits
IntOfStr(s) ==
    LET u == Strip(s)
        neg == u # <<>> /\ Head(u) = "-"
        d == IF neg THEN Tail(u) ELSE u
    IN  IF IsDigits(d)
        THEN [ok |-> TRUE, v |-> IF neg THEN 0 - DigitsVal(d) ELSE DigitsVal(d)]
        ELSE [ok |-> FALSE, v |-> 0]

\* float(str), in halves: as int(str), with an optional "." and an optional
\* fraction digit 0 or 5 (the fractions a count of halves can hold)
FloatOfStr(s) ==
    LET u == Strip(s)
        neg == u # <<>> /\ Head(u) = "-"
        d == IF neg THEN Tail(u) ELSE u
        n == Len(d)
        dots == {i \in 1..n : d[i] = "."}
        p == IF dots = {} THEN n + 1 ELSE CHOOSE i \in dots : \A j \in dots : i <= j
        ip == SubSeq(d, 1, p - 1)
        fp == SubSeq(d, p + 1, n)
        okay == /\ ip = <<>> \/ IsDigits(ip)
                /\ fp \in {<<>>, <<"0">>, <<"5">>}
                /\ ip # <<>> \/ fp # <<>>
        h == 2 * DigitsVal(ip) + (IF fp = <<"5">> THEN 1 ELSE 0)
    IN  IF okay
        THEN [ok |-> TRUE, v |-> IF neg THEN 0 - h ELSE h]
        ELSE [ok |-> FALSE, v |-> 0]

\* round(x) of a float given in halves: an exact half goes to the even neighbour
RoundHalves(h) ==
    IF h % 2 = 0 THEN h \div 2
    ELSE LET k == (h - 1) \div 2 IN IF k % 2 = 0 THEN k ELSE k + 1

\* int(x) of a float given in halves: truncation toward zero
TruncHalves(h) == IF h >= 0 THEN h \div 2 ELSE 0 - ((0 - h) \div 2)

\* _as_int(x, default)
_as_int(x, default) ==
    CASE x.t = "int" -> x.v
      [] x.t = "float" -> RoundHalves(x.v)
      [] x.t = "str" ->
            (LET f == FloatOfStr(x.v) IN IF f.ok THEN RoundHalves(f.v) ELSE default)
      [] OTHER -> default

\* Python's s != s_raw for an int s
NeqInt(s, x) ==
    CASE x.t = "int" -> s # x.v
      [] x.t = "float" -> 2 * s # x.v
      [] OTHER -> TRUE

\* the page's score coercion: int(round(float(x))), 0 on ValueError or TypeError
PageScore(x) ==
    CASE x.t = "int" -> x.v
      [] x.t = "float" -> RoundHalves(x.v)
      [] x.t = "str" ->
            (LET f == FloatOfStr(x.v) IN IF f.ok THEN RoundHalves(f.v) ELSE 0)
      [] OTHER -> 0

\* the page's int(r.get("points", 0)): raises on None and on a non-integer string
PagePoints(x) ==
    CASE x.t = "int" -> [ok |-> TRUE, v |-> x.v]
      [] x.t = "float" -> [ok |-> TRUE, v |-> TruncHalves(x.v)]
      [] x.t = "str" -> IntOfStr(x.v)
      [] OTHER -> [ok |-> FALSE, v |-> 0]

----------------------------------------------------------------------------
(* Alignment: grader_engine/text_grader.py *)

EmptySanity ==
    [unknown_criteria |-> <<>>, over_allocated |-> <<>>,
     coerced_types |-> FALSE, model_items_seen |-> 0]

\* what `for it in (model_breakdown or [])` iterates over; a truthy number
\* is not iterable, and only the dictionaries among the items are used
IterRaises(b) == Truthy(b) /\ b.t \in {"int", "float", "nan"}

IterItems(b) == IF Truthy(b) /\ b.t = "list" THEN b.v ELSE <<>>

DictPut(mm, k, s) == [x \in (DOMAIN mm) \cup {k} |-> IF x = k THEN s ELSE mm[x]]

Scored(crit, sc) == PyDict([criteria |-> crit, score |-> PyInt(sc)])

\* lines 156-170: build the label -> score map
RECURSIVE ScanBreakdown(_, _)
ScanBreakdown(items, st) ==
    IF items = <<>> \/ st.raised THEN st
    ELSE LET it == Head(items)
             c == Get(it, "criteria", PyStr(<<>>))
             s_raw == Get(it, "score", PyInt(0))
             s == _as_int(s_raw, 0)
             k == _normalize(c)
             co == st.coerced \/ NeqInt(s, s_raw)
         IN  IF it.t # "dict" THEN ScanBreakdown(Tail(items), st)
             ELSE IF NormalizeRaises(c) THEN [st EXCEPT !.raised = TRUE, !.coerced = co]
             ELSE IF k = <<>> THEN ScanBreakdown(Tail(items), [st EXCEPT !.coerced = co])
             ELSE ScanBreakdown(Tail(items),
                    [st EXCEPT !.coerced = co, !.mm = DictPut(st.mm, k, s),
                               !.keys = Append(st.keys, k), !.seen = st.seen + 1])

\* the test of line 185 with a score equal to the maximum reported too
AtOrOverMax(sc, pts) == sc >= pts

\* line 185: if sc > pts
OverAllocated(sc, pts) == sc > pts

\* sc = min(sc, pts): the bound at zero left out
ClampNoFloor(sc, pts) == Min(sc, pts)

\* sc = max(0, min(sc, pts))
Clamp(sc, pts) == Max(0, Min(sc, pts))

\* the rubric loop with unmatched criteria passed over instead of scored 0
RECURSIVE AlignRubricMatchedOnly(_, _, _, _)
AlignRubricMatchedOnly(rs, mm, keys, acc) ==
    IF rs = <<>> THEN acc
    ELSE LET r == Head(rs)
             crit == Get(r, "criteria", PyStr(<<>>))
             pts == _as_int(Get(r, "points", PyInt(0)), 0)
             norm == _normalize(crit)
             match == IF norm \in DOMAIN mm THEN <<norm>> ELSE get_close_matches(norm, keys)
         IN  IF match = <<>> THEN AlignRubricMatchedOnly(Tail(rs), mm, keys, acc)
             ELSE AlignRubricMatchedOnly(Tail(rs), mm, keys,
                    [acc EXCEPT !.aligned =
                        Append(acc.aligned, Scored(crit, Max(0, Min(mm[match[1]], pts))))])

\* lines 172-188: one aligned entry per rubric criterion
RECURSIVE AlignRubric(_, _, _, _)
AlignRubric(rs, mm, keys, acc) ==
    IF rs = <<>> \/ acc.raised THEN acc
    ELSE LET r == Head(rs)
             crit == Get(r, "criteria", PyStr(<<>>))
             pts == _as_int(Get(r, "points", PyInt(0)), 0)
             norm == _normalize(crit)
             match == IF norm \in DOMAIN mm THEN <<norm>> ELSE get_close_matches(norm, keys)
             sc == IF match # <<>> THEN mm[match[1]] ELSE 0
             unk == IF match = <<>> THEN Append(acc.sanity.unknown_criteria, crit)
                    ELSE acc.sanity.unknown_criteria
             over == IF OverAllocated(sc, pts)
                     THEN Append(acc.sanity.over_allocated,
                                 [criteria |-> crit, score |-> sc, max |-> pts])
                     ELSE acc.sanity.over_allocated
         IN  IF NormalizeRaises(crit) THEN [acc EXCEPT !.raised = TRUE]
             ELSE AlignRubric(Tail(rs), mm, keys,
                    [raised |-> FALSE,
                     aligned |-> Append(acc.aligned, Scored(crit, Clamp(sc, pts))),
                     sanity |-> [acc.sanity EXCEPT !.unknown_criteria = unk,
                                                   !.over_allocated = over]])

\* lines 172-190 on the map built by lines 156-170
AlignScanned(rub, st) ==
    LET san == [EmptySanity EXCEPT !.coerced_types = st.coerced,
                                   !.model_items_seen = st.seen]
    IN  IF st.raised THEN [raised |-> TRUE, aligned |-> <<>>, sanity |-> san]
        ELSE AlignRubric(rub, st.mm, st.keys,
                         [raised |-> FALSE, aligned |-> <<>>, sanity |-> san])

\* _align_and_clamp(rubric, model_breakdown): [raised, aligned, sanity]
_align_and_clamp(rub, model_breakdown) ==
    IF rub = <<>> THEN [raised |-> FALSE, aligned |-> <<>>, sanity |-> EmptySanity]
    ELSE IF IterRaises(model_breakdown)
         THEN [raised |-> TRUE, aligned |-> <<>>, sanity |-> EmptySanity]
    ELSE Let(LAMBDA st : AlignScanned(rub, st),
             ScanBreakdown(IterItems(model_breakdown),
                           [raised |-> FALSE, mm |-> <<>>, keys |-> <<>>,
                            coerced |-> FALSE, seen |-> 0]))

----------------------------------------------------------------------------
(* Alignment: pages/2_grading_result.py *)

\* what the page's loop iterates over: it calls it.get(...) on every item
PageItems(b) ==
    IF ~Truthy(b) THEN <<>>
    ELSE IF b.t = "list" THEN b.v
    ELSE IF b.t = "str" THEN [i \in 1..Len(b.v) |-> PyStr(<<b.v[i]>>)]
    ELSE <<>>

\* lines 99-104
RECURSIVE PageScan(_, _)
PageScan(items, st) ==
    IF items = <<>> \/ st.raised THEN st
    ELSE LET it == Head(items)
             c == Get(it, "criteria", PyStr(<<>>))
             k == _normalize(c)
             sc == PageScore(Get(it, "score", PyInt(0)))
         IN  IF it.t # "dict" \/ NormalizeRaises(c) THEN [st EXCEPT !.raised = TRUE]
             ELSE IF k = <<>> THEN PageScan(Tail(items), st)
             ELSE PageScan(Tail(items),
                    [st EXCEPT !.mm = DictPut(st.mm, k, sc), !.keys = Append(st.keys, k)])

\* max(0, min(sc, pts)) of line 112
PageClamp(sc, pts) == Max(0, Min(sc, pts))

\* lines 105-112
RECURSIVE PageAlign(_, _, _, _)
PageAlign(rs, mm, keys, acc) ==
    IF rs = <<>> \/ acc.raised THEN acc
    ELSE LET r == Head(rs)
             crit == Get(r, "criteria", PyStr(<<>>))
             pts == PagePoints(Get(r, "points", PyInt(0)))
             norm == _normalize(crit)
             close == IF norm \in DOMAIN mm THEN <<norm>> ELSE get_close_matches(norm, keys)
             sc == IF close # <<>> THEN mm[close[1]] ELSE 0
         IN  IF ~pts.ok \/ NormalizeRaises(crit) THEN [acc EXCEPT !.raised = TRUE]
             ELSE PageAlign(Tail(rs), mm, keys,
                    [acc EXCEPT !.aligned =
                        Append(acc.aligned, Scored(crit, PageClamp(sc, pts.v)))])

\* _align_to_rubric(rubric_list, model_breakdown, model_total): [raised, aligned];
\* model_total is accepted and never read
_align_to_rubric(rubric_list, model_breakdown, model_total) ==
    IF rubric_list = <<>> THEN [raised |-> FALSE, aligned |-> <<>>]
    ELSE IF IterRaises(model_breakdown) \/ (Truthy(model_breakdown) /\ model_breakdown.t = "dict")
         THEN [raised |-> TRUE, aligned |-> <<>>]
    ELSE LET st == PageScan(PageItems(model_breakdown),
                            [raised |-> FALSE, mm |-> <<>>, keys |-> <<>>])
         IN  IF st.raised THEN [raised |-> TRUE, aligned |-> <<>>]
             ELSE PageAlign(rubric_list, st.mm, st.keys, [raised |-> FALSE, aligned |-> <<>>])

----------------------------------------------------------------------------
(* Feedback text: grader_engine/text_grader.py *)

DigitChar(d) ==
    CASE d = 0 -> "0" [] d = 1 -> "1" [] d = 2 -> "2" [] d = 3 -> "3" [] d = 4 -> "4"
      [] d = 5 -> "5" [] d = 6 -> "6" [] d = 7 -> "7" [] d = 8 -> "8" [] OTHER -> "9"

\* str(n) of an int
RECURSIVE IntStr(_)
IntStr(n) ==
    IF n < 0 THEN <<"-">> \o IntStr(0 - n)
    ELSE IF n < 10 THEN <<DigitChar(n)>>
    ELSE IntStr(n \div 10) \o <<DigitChar(n % 10)>>

\* str(x) / f"{x}" of the values that reach a format string here
FmtStr(x) ==
    CASE x.t = "str" -> x.v
      [] x.t = "int" -> IntStr(x.v)
      [] OTHER -> <<"N", "o", "n", "e">>

RECURSIVE JoinLines(_)
JoinLines(ls) ==
    IF ls = <<>> THEN <<>>
    ELSE IF Len(ls) = 1 THEN ls[1]
    ELSE ls[1] \o <<"\n">> \o JoinLines(Tail(ls))

Points(r) == _as_int(Get(r, "points", PyInt(0)), 0)

TotalPossible(rub) == SumSeq([i \in 1..Len(rub) |-> Points(rub[i])])

ScoreOf(e) == e.v.score.v

\* the Total line, the "Rubric Breakdown:" line and the first n criterion lines
HeaderLines(rub, al, total, n) ==
    LET first == <<"*", "*", "T", "o", "t", "a", "l", ":", " ">> \o IntStr(total) \o <<"/">>
                     \o IntStr(TotalPossible(rub)) \o <<"*", "*">>
        crit(i) == <<"-", " ">> \o FmtStr(Get(rub[i], "criteria", PyStr(<<>>)))
                     \o <<":", " ">> \o IntStr(ScoreOf(al[i])) \o <<"/">>
                     \o IntStr(Points(rub[i]))
    IN  JoinLines(<<first, <<"R", "u", "b", "r", "i", "c", " ", "B", "r", "e", "a", "k", "d", "o", "w", "n", ":">>>>
                  \o [i \in 1..n |-> crit(i)])

\* the header with the last criterion line left off
_feedback_header_short(rub, al, total) ==
    HeaderLines(rub, al, total, Max(0, Min(Len(rub), Len(al)) - 1))

\* _feedback_header(rubric, aligned, total): zip(rubric, aligned) stops at the shorter
_feedback_header(rub, al, total) ==
    HeaderLines(rub, al, total, Min(Len(rub), Len(al)))

\* f"Grading failed: {e}" with the exception text left out
GradingFailed == <<"G", "r", "a", "d", "i", "n", "g", " ", "f", "a", "i", "l", "e", "d", ":", " ">>

----------------------------------------------------------------------------
(* Feedback de-duplication: pages/2_grading_result.py *)

RECURSIVE LStripNewlines(_)
LStripNewlines(s) ==
    IF s # <<>> /\ Head(s) = "\n" THEN LStripNewlines(Tail(s)) ELSE s

\* re.split(r'[\n]+', text)
RECURSIVE SplitLines(_, _)
SplitLines(s, cur) ==
    IF s = <<>> THEN <<cur>>
    ELSE IF Head(s) = "\n"
         THEN <<cur>> \o SplitLines(LStripNewlines(Tail(s)), <<>>)
         ELSE SplitLines(Tail(s), Append(cur, Head(s)))

IsWord(c) == c \notin {" ", "\n", "!", ".", "-", ":", "/", "*"}

\* re.sub(r'\W+', ' ', s)
RECURSIVE CollapseNonWord(_, _)
CollapseNonWord(s, inrun) ==
    IF s = <<>> THEN <<>>
    ELSE IF IsWord(Head(s)) THEN <<Head(s)>> \o CollapseNonWord(Tail(s), FALSE)
    ELSE IF inrun THEN CollapseNonWord(Tail(s), TRUE)
    ELSE <<" ">> \o CollapseNonWord(Tail(s), TRUE)

\* the key without the case folding
DedupeKeyCased(ln) == Strip(CollapseNonWord(ln, FALSE))

\* key = re.sub(r'\W+', ' ', ln.lower()).strip()
DedupeKey(ln) == Strip(CollapseNonWord(Lower(ln), FALSE))

\* lines = [l.strip() for l in re.split(...) if l.strip()]
StrippedLines(text) ==
    LET parts == SplitLines(text, <<>>)
    IN  SelectSeq([i \in 1..Len(parts) |-> Strip(parts[i])], LAMBDA l : l # <<>>)

\* the loop of lines 121-123
RECURSIVE DedupeLoop(_, _, _)
DedupeLoop(lines, seen, out) ==
    IF lines = <<>> THEN out
    ELSE LET key == DedupeKey(Head(lines))
         IN  IF key \notin seen
             THEN DedupeLoop(Tail(lines), seen \cup {key}, Append(out, Head(lines)))
             ELSE DedupeLoop(Tail(lines), seen, out)

\* the loop with duplicates deleted from the list being iterated: the line
\* after a deleted one is passed over
RECURSIVE DedupeLoopSkipping(_, _, _, _)
DedupeLoopSkipping(lines, seen, out, skip) ==
    IF lines = <<>> THEN out
    ELSE LET key == DedupeKey(Head(lines))
         IN  IF skip
             THEN DedupeLoopSkipping(Tail(lines), seen, Append(out, Head(lines)), FALSE)
             ELSE IF key \notin seen
             THEN DedupeLoopSkipping(Tail(lines), seen \cup {key}, Append(out, Head(lines)), FALSE)
             ELSE DedupeLoopSkipping(Tail(lines), seen, out, TRUE)

_dedupe_feedback_skipping(text) ==
    JoinLines(DedupeLoopSkipping(StrippedLines(IF Truthy(text) THEN text.v ELSE <<>>),
                                 {}, <<>>, FALSE))

\* _dedupe_feedback(text), text a str or None
_dedupe_feedback(text) ==
    JoinLines(DedupeLoop(StrippedLines(IF Truthy(text) THEN text.v ELSE <<>>), {}, <<>>))

----------------------------------------------------------------------------
(* Inputs *)

Absent == [t |-> "absent", v |-> 0]     \* a key the object does not have

\* a JSON object with the keys that are present
Obj(total, breakdown, feedback) ==
    LET all == [total_score |-> total, rubric_scores |-> breakdown, feedback |-> feedback]
        keys == {k \in DOMAIN all : all[k] # Absent}
    IN  PyDict([k \in keys |-> all[k]])

Entry(label, score) == PyDict([criteria |-> label, score |-> score])

Criterion(name, pts) == PyDict([criteria |-> PyStr(name), points |-> PyInt(pts)])

\* rubrics as the upload page builds them: named criteria with points >= 0
RubricNames == {Str2("a", "b"), Str3("a", "b", "c")}

Criteria == {Criterion(n, p) : n \in RubricNames, p \in 0..MaxPts}

Rubrics == SeqsUpTo(Criteria, MaxRubric)

\* labels of raw entries: an exact match of "ab" after normalisation, a
\* near miss of both rubric names, and a label close to neither
RawLabels == {PyStr(Str3(" ", "A", "B")), PyStr(Str3("a", "b", "d")), PyStr(Str2("c", "d"))}

RawScores == {PyInt(0 - 1), PyInt(1), PyInt(MaxPts + 1), PyFloat(3), PyNone}

AlignBreakdowns == {PyList(l) : l \in SeqsUpTo({Entry(c, x) : c \in RawLabels, x \in RawScores},
                                               MaxEntries)}

\* what the generator may hand the page as rubric_scores
PageBreakdowns ==
    {PyList(l) : l \in SeqsUpTo({Entry(c, x) : c \in RawLabels, x \in {PyInt(1), PyInt(MaxPts + 1)}},
                                MaxEntries)}

\* entries of the responses handed to grade_answer: well-formed ones, a
\* non-string label, a non-numeric score, and an item that is not an object
ResponseEntries ==
    {Entry(PyStr(Str3(" ", "A", "B")), PyInt(1)),
     Entry(PyStr(Str3("a", "b", "d")), PyInt(MaxPts + 1)),
     Entry(PyStr(Str2("a", "b")), PyStr(<<"x">>)),
     Entry(PyInt(5), PyInt(1)),
     PyInt(5)}

ResponseBreakdowns ==
    {Absent, PyInt(5), PyStr(Str2("a", "b"))}
        \cup {PyList(l) : l \in SeqsUpTo(ResponseEntries, MaxEntries)}

ResponseTotals == {Absent, PyInt(2), PyInt(7)}

ResponseFeedbacks == {Absent, PyStr(<<" ", "G", "g", "\n", "g", "g">>)}

\* a raw response: text that holds no JSON document, or the text of a JSON
\* document (an object, or a number or an array without braces)
Prose == [t |-> "prose", v |-> Absent]

JsonText(doc) == [t |-> "json", v |-> doc]

RawResponses ==
    {Prose, JsonText(PyInt(5)), JsonText(PyList(<<PyInt(1), PyInt(2)>>))}
        \cup {JsonText(Obj(tt, b, f)) :
                tt \in ResponseTotals, b \in ResponseBreakdowns, f \in ResponseFeedbacks}

----------------------------------------------------------------------------
(* grade_answer: grader_engine/text_grader.py *)

ExpectedKeys == {"total_score", "rubric_scores", "feedback"}

\* output_parser.parse(raw): the JSON document if it holds every expected
\* key; raises otherwise
StructuredParse(r) ==
    IF r.t = "json" /\ r.v.t = "dict" /\ ExpectedKeys \subseteq DOMAIN r.v.v
    THEN [ok |-> TRUE, v |-> r.v]
    ELSE [ok |-> FALSE, v |-> EmptyDict]

\* json.loads(_extract_json(raw)): any JSON document; raises on other text
JsonLoadsExtracted(r) ==
    IF r.t = "json" THEN [ok |-> TRUE, v |-> r.v] ELSE [ok |-> FALSE, v |-> EmptyDict]

\* model_total = _as_int(parsed.get("total_score", 0), 0)
ModelTotal(p) == _as_int(Get(p, "total_score", PyInt(0)), 0)

\* model_breakdown = parsed.get("rubric_scores", []) or []
ModelBreakdown(p) ==
    LET b == Get(p, "rubric_scores", PyList(<<>>))
    IN  IF Truthy(b) THEN b ELSE PyList(<<>>)

\* model_feedback, made a string
ModelFeedback(p) == FmtStr(Get(p, "feedback", PyStr(<<>>)))

\* int(sum(int(it["score"]) for it in aligned))
RecomputeTotal(al) == SumSeq([i \in 1..Len(al) |-> ScoreOf(al[i])])

ZeroScores(rub) == [i \in 1..Len(rub) |-> Scored(Get(rub[i], "criteria", PyStr(<<>>)), 0)]

NoRaw == [t |-> "none", v |-> Absent]

NoResult == [total_score |-> 0, rubric_scores |-> <<>>, feedback |-> <<>>,
             debug |-> [sanity |-> EmptySanity]]

AlignIdle == a_breakdown = PyNone /\ a_fn = "none" /\ a_out = [raised |-> FALSE, aligned |-> <<>>]

DedupeIdle == d_text = PyNone /\ d_once = <<>> /\ d_twice = <<>> /\ d_pc = 0

PipelineIdle ==
    /\ pc = "Idle" /\ include_header = TRUE /\ raw = NoRaw /\ parsed = EmptyDict
    /\ aligned = <<>> /\ sanity = EmptySanity /\ total_awarded = 0
    /\ full_feedback = <<>> /\ result = NoResult

TwinIdle == t_raw = <<>> /\ t_out = <<>>

CoerceIdle == c_in = PyNone /\ c_fn = "none" /\ c_out = 0

NoRow == [old_score |-> 0, new_score |-> 0, corrections |-> <<>>]

PageIdle == p_pc = "Idle" /\ p_scores = <<>> /\ p_db = NoRow

ShareIdle == result_shares = <<>> /\ s_call = [op |-> "none", row |-> <<>>] /\ s_before = <<>>

RestIdle == TwinIdle /\ CoerceIdle /\ PageIdle /\ ShareIdle

NotAligned == [run |-> FALSE, raised |-> FALSE, aligned |-> <<>>]

RealignIdle == a_again = NotAligned

NotMatched == [run |-> FALSE, match |-> <<>>]

MatchIdle == m_word = <<>> /\ m_keys = <<>> /\ m_out = NotMatched

NoCall == [op |-> "none", pc |-> "idle", args |-> <<>>, record |-> <<>>, returned |-> 0,
           raised |-> FALSE, n |-> 0]

NoTables == [results |-> <<>>, corrections |-> <<>>]

DbIdle ==
    /\ grading_results = <<>> /\ grading_corrections = <<>>
    /\ db_call = NoCall /\ db_before = NoTables

NoCache == [signature |-> <<>>, results |-> <<>>]

NoRun == [ran |-> FALSE, cache |-> NoCache, counts |-> <<>>]

CacheIdle == k_inputs = <<>> /\ k_cache = NoCache /\ k_graded = <<>> /\ k_last = NoRun

RaceIdle == sessions = <<>>

MoreIdle == RealignIdle /\ MatchIdle /\ DbIdle /\ CacheIdle /\ RaceIdle

pipeVars == <<pc, rubric, include_header, raw, parsed, aligned, sanity, total_awarded,
              full_feedback, result>>
alignVars == <<a_breakdown, a_fn, a_out>>
dedupeVars == <<d_text, d_once, d_twice, d_pc>>
twinVars == <<t_raw, t_out>>
coerceVars == <<c_in, c_fn, c_out>>
pageVars == <<p_pc, p_scores, p_db>>
shareVars == <<result_shares, s_call, s_before>>
restVars == <<twinVars, coerceVars, pageVars, shareVars>>
matchVars == <<m_word, m_keys, m_out>>
dbVars == <<grading_results, grading_corrections, db_call, db_before>>
cacheVars == <<k_inputs, k_cache, k_graded, k_last>>
moreVars == <<a_again, matchVars, dbVars, cacheVars, sessions>>

Init ==
    /\ pc = "Invoke"
    /\ rubric \in Rubrics
    /\ include_header \in BOOLEAN
    /\ raw = NoRaw /\ parsed = EmptyDict
    /\ aligned = <<>> /\ sanity = EmptySanity /\ total_awarded = 0
    /\ full_feedback = <<>> /\ result = NoResult
    /\ AlignIdle /\ DedupeIdle /\ RestIdle /\ MoreIdle

\* lines 285-289: the model answers
Invoke ==
    /\ pc = "Invoke"
    /\ raw' \in RawResponses
    /\ pc' = "Received"
    /\ UNCHANGED <<rubric, include_header, parsed, aligned, sanity, total_awarded,
                   full_feedback, result, alignVars, dedupeVars, restVars, moreVars>>

\* lines 290-299: the model call raises
InvokeFailed ==
    /\ pc = "Invoke"
    /\ result' = [total_score |-> 0, rubric_scores |-> ZeroScores(rubric),
                  feedback |-> GradingFailed,
                  debug |-> [sanity |-> [error |-> "invoke_failed"]]]
    /\ pc' = "Done"
    /\ UNCHANGED <<rubric, include_header, raw, parsed, aligned, sanity, total_awarded,
                   full_feedback, alignVars, dedupeVars, restVars, moreVars>>

\* lines 304-308: the structured parser, then json.loads, then {}
Parse ==
    /\ pc = "Received"
    /\ LET sp == StructuredParse(raw)
           jl == JsonLoadsExtracted(raw)
       IN  /\ parsed' = IF sp.ok THEN sp.v ELSE IF jl.ok THEN jl.v ELSE EmptyDict
           /\ pc' = IF sp.ok \/ jl.ok THEN "Parsed" ELSE "Failed"
    /\ UNCHANGED <<rubric, include_header, raw, aligned, sanity, total_awarded,
                   full_feedback, result, alignVars, dedupeVars, restVars, moreVars>>

\* lines 311-317: extract the fields and align; parsed.get raises when
\* parsed is not a dictionary, and alignment may raise
Align ==
    /\ pc \in {"Parsed", "Failed"}
    /\ IF parsed.t # "dict"
       THEN pc' = "Raised" /\ UNCHANGED <<aligned, sanity>>
       ELSE \E r \in {_align_and_clamp(rubric, ModelBreakdown(parsed))} :
               IF r.raised
               THEN pc' = "Raised" /\ UNCHANGED <<aligned, sanity>>
               ELSE pc' = "Aligned" /\ aligned' = r.aligned /\ sanity' = r.sanity
    /\ UNCHANGED <<rubric, include_header, raw, parsed, total_awarded,
                   full_feedback, result, alignVars, dedupeVars, restVars, moreVars>>

\* lines 326-331
FullFeedback(rub, hdr, p, al, total) ==
    LET body == Strip(ModelFeedback(p))
    IN  IF hdr
        THEN _feedback_header(rub, al, total) \o (IF body # <<>> THEN <<"\n", "\n">> \o body ELSE <<>>)
        ELSE body

\* lines 321-323
SanityWithTotals(p, san, total) ==
    IF ModelTotal(p) # total
    THEN [model_total |-> ModelTotal(p), recomputed_total |-> total] @@ san
    ELSE san

\* lines 320-331 for a given total
ComposeWith(total) ==
    /\ pc = "Aligned"
    /\ total_awarded' = total
    /\ sanity' = SanityWithTotals(parsed, sanity, total)
    /\ full_feedback' = FullFeedback(rubric, include_header, parsed, aligned, total)
    /\ pc' = "Composed"
    /\ UNCHANGED <<rubric, include_header, raw, parsed, aligned, result,
                   alignVars, dedupeVars, restVars, moreVars>>

\* the total taken from the generator's claim
ComposeClaimed == ComposeWith(ModelTotal(parsed))

\* lines 320-331: recompute the total, note a mismatch, build the feedback
Compose == ComposeWith(RecomputeTotal(aligned))

\* lines 334-341
Return ==
    /\ pc = "Composed"
    /\ result' = [total_score |-> total_awarded, rubric_scores |-> aligned,
                  feedback |-> full_feedback, debug |-> [sanity |-> sanity]]
    /\ pc' = "Done"
    /\ UNCHANGED <<rubric, include_header, raw, parsed, aligned, sanity, total_awarded,
                   full_feedback, alignVars, dedupeVars, restVars, moreVars>>

Next == Invoke \/ InvokeFailed \/ Parse \/ Align \/ Compose \/ Return

Spec == Init /\ [][Next]_vars

\* grade_answer is straight-line code: a call that has started runs on
FairSpec == Spec /\ WF_vars(Next)

----------------------------------------------------------------------------
(* grade_answer followed by the page's de-duplication of its feedback *)

\* 2_grading_result.py line 218: feedback_txt = _dedupe_feedback(out.get("feedback", ""))
DedupeReturned ==
    /\ pc = "Done" /\ d_pc = 0
    /\ d_text' = PyStr(result.feedback)
    /\ d_once' = _dedupe_feedback(PyStr(result.feedback))
    /\ d_pc' = 1
    /\ UNCHANGED <<pipeVars, alignVars, d_twice, restVars, moreVars>>

NextShown == Next \/ DedupeReturned

SpecShown == Init /\ [][NextShown]_vars

----------------------------------------------------------------------------
(* grade_answer as a function of its arguments and the generator's response, *)
(* applied to two responses that differ in total_score only                 *)

\* the total taken from the generator's claim
TotalClaimed(p, al) == ModelTotal(p)

\* line 320: the total is computed from the aligned list
TotalAwarded(p, al) == RecomputeTotal(al)

GradeRaised ==
    [raised |-> TRUE, total_score |-> 0, rubric_scores |-> <<>>, feedback |-> <<>>,
     sanity |-> EmptySanity]

\* lines 320-341 on what alignment returned
GradeAligned(rub, hdr, p, r) ==
    IF r.raised THEN GradeRaised
    ELSE [raised |-> FALSE,
          total_score |-> TotalAwarded(p, r.aligned),
          rubric_scores |-> r.aligned,
          feedback |-> FullFeedback(rub, hdr, p, r.aligned, TotalAwarded(p, r.aligned)),
          sanity |-> SanityWithTotals(p, r.sanity, TotalAwarded(p, r.aligned))]

\* lines 311-341 on the parsed response
GradeParsed(rub, hdr, p) ==
    IF p.t # "dict" THEN GradeRaised
    ELSE Let(LAMBDA r : GradeAligned(rub, hdr, p, r), _align_and_clamp(rub, ModelBreakdown(p)))

\* lines 304-341: grade_answer after the generator has answered r
grade_answer(rub, hdr, r) ==
    LET sp == StructuredParse(r)
        jl == JsonLoadsExtracted(r)
    IN  GradeParsed(rub, hdr, IF sp.ok THEN sp.v ELSE IF jl.ok THEN jl.v ELSE EmptyDict)

TwinBreakdowns == {PyList(l) : l \in SeqsUpTo(ResponseEntries, MaxEntries) \ {<<>>}}

InitTwin ==
    /\ rubric \in Rubrics
    /\ include_header \in BOOLEAN
    /\ \E b \in TwinBreakdowns, f \in ResponseFeedbacks :
       \E t1 \in ResponseTotals : \E t2 \in ResponseTotals \ {t1} :
          t_raw = <<JsonText(Obj(t1, b, f)), JsonText(Obj(t2, b, f))>>
    /\ t_out = <<>>
    /\ pc = "Idle" /\ raw = NoRaw /\ parsed = EmptyDict
    /\ aligned = <<>> /\ sanity = EmptySanity /\ total_awarded = 0
    /\ full_feedback = <<>> /\ result = NoResult
    /\ AlignIdle /\ DedupeIdle /\ CoerceIdle /\ PageIdle /\ ShareIdle /\ MoreIdle

\* grade_answer on each response, and the page's alignment (line 217) of each
\* response's rubric_scores and total_score
GradeBoth ==
    /\ t_out = <<>>
    /\ t_out' = [i \in 1..2 |->
                   [text |-> grade_answer(rubric, include_header, t_raw[i]),
                    page |-> _align_to_rubric(rubric,
                                              Get(t_raw[i].v, "rubric_scores", PyList(<<>>)),
                                              Get(t_raw[i].v, "total_score", PyNone))]]
    /\ UNCHANGED <<pipeVars, alignVars, dedupeVars, t_raw, coerceVars, pageVars, shareVars, moreVars>>

NextTwin == GradeBoth

SpecTwin == InitTwin /\ [][NextTwin]_vars

----------------------------------------------------------------------------
(* The two alignments applied to arbitrary breakdowns *)

InitAlign ==
    /\ rubric \in Rubrics
    /\ a_breakdown \in AlignBreakdowns
    /\ a_fn = "none" /\ a_out = [raised |-> FALSE, aligned |-> <<>>]
    /\ PipelineIdle /\ DedupeIdle /\ RestIdle /\ MoreIdle

AlignAndClamp ==
    /\ a_fn = "none"
    /\ a_fn' = "_align_and_clamp"
    /\ a_out' = _align_and_clamp(rubric, a_breakdown)
    /\ UNCHANGED <<pipeVars, a_breakdown, dedupeVars, restVars, moreVars>>

AlignToRubric ==
    /\ a_fn = "none"
    /\ a_fn' = "_align_to_rubric"
    /\ a_out' = _align_to_rubric(rubric, a_breakdown, PyInt(0))
    /\ UNCHANGED <<pipeVars, a_breakdown, dedupeVars, restVars, moreVars>>

NextAlign == AlignAndClamp \/ AlignToRubric

SpecAlign == InitAlign /\ [][NextAlign]_vars

----------------------------------------------------------------------------
(* The fuzzy lookup of a criterion name that no label equals *)

\* normalised criterion names
MatchWords == {Str2("a", "b"), Str3("a", "b", "c")}

\* normalised labels: several of them are equally similar to a name
MatchLabels ==
    {Str2("a", "b"), Str3("a", "b", "c"), Str3("a", "b", "d"), Str2("a", "c"),
     Str2("b", "c"), Str2("c", "d"), <<"a", "b", "c", "d">>, <<"b">>}

\* keys in the order the entries were listed; the name is not among them
\* (line 177 / line 108 took the other branch otherwise)
InitMatch ==
    /\ m_word \in MatchWords
    /\ m_keys \in SeqsUpTo(MatchLabels \ {m_word}, MaxEntries)
    /\ m_out = NotMatched
    /\ rubric = <<>> /\ PipelineIdle /\ AlignIdle /\ DedupeIdle /\ RestIdle
    /\ RealignIdle /\ DbIdle /\ CacheIdle /\ RaceIdle

\* difflib.get_close_matches(norm, keys, n=1, cutoff=fuzzy_cutoff)
CloseMatch ==
    /\ ~m_out.run
    /\ m_out' = [run |-> TRUE, match |-> get_close_matches(m_word, m_keys)]
    /\ UNCHANGED <<pipeVars, alignVars, dedupeVars, restVars, a_again, m_word, m_keys,
                   dbVars, cacheVars, sessions>>

NextMatch == CloseMatch

SpecMatch == InitMatch /\ [][NextMatch]_vars

----------------------------------------------------------------------------
(* grading_results and grading_corrections: database/postgres_handler.py *)

\* the conflict target (student_id, assignment_no, question) of the i-th student
ResultKey(i) == [student_id |-> IntStr(i), assignment_no |-> <<"1">>, question |-> <<"q">>]

DbScores == 1..MaxPts

DbFeedbacks == {<<"f">>, <<"g">>}

\* a row of grading_results; the columns the claims do not mention
\* (student_answer, language, course, semester, professor_id, created_at)
\* are left out
ResultRow(id, key, old_score, new_score, old_feedback, new_feedback) ==
    [id |-> id, key |-> key, old_score |-> old_score, new_score |-> new_score,
     old_feedback |-> old_feedback, new_feedback |-> new_feedback]

\* INSERT without the ON CONFLICT clause: always a new row
InsertRows(rows, key, score, feedback) ==
    Append(rows, ResultRow(Len(rows) + 1, key, score, score, feedback, feedback))

\* lines 63-77: INSERT ... ON CONFLICT (student_id, assignment_no, question)
\* DO UPDATE SET new_score, new_feedback, ...; relies on the unique index
\* the docstring asks for
UpsertRows(rows, key, score, feedback) ==
    IF \E i \in 1..Len(rows) : rows[i].key = key
    THEN [i \in 1..Len(rows) |->
            IF rows[i].key = key
            THEN [rows[i] EXCEPT !.new_score = score, !.new_feedback = feedback]
            ELSE rows[i]]
    ELSE Append(rows, ResultRow(Len(rows) + 1, key, score, score, feedback, feedback))

\* RETURNING id
ReturnedId(rows, key) ==
    LET at == {i \in 1..Len(rows) : rows[i].key = key}
    IN  rows[CHOOSE i \in at : \A j \in at : j <= i].id

InitUpsert ==
    /\ DbIdle
    /\ rubric = <<>> /\ PipelineIdle /\ AlignIdle /\ DedupeIdle /\ RestIdle
    /\ RealignIdle /\ MatchIdle /\ CacheIdle /\ RaceIdle

\* insert_or_update_grading_result as the page calls it at line 225:
\* old_score = new_score = total_score, old_feedback = new_feedback
insert_or_update_grading_result ==
    /\ db_call.n < MaxDbCalls
    /\ \E i \in 1..MaxResultId, score \in DbScores, feedback \in DbFeedbacks :
          \E rows \in {UpsertRows(grading_results, ResultKey(i), score, feedback)} :
             /\ grading_results' = rows
             /\ db_call' = [op |-> "insert_or_update_grading_result", pc |-> "idle",
                            args |-> [key |-> ResultKey(i), score |-> score, feedback |-> feedback],
                            record |-> <<>>, returned |-> ReturnedId(rows, ResultKey(i)),
                            raised |-> FALSE, n |-> db_call.n + 1]
    /\ db_before' = [results |-> grading_results, corrections |-> grading_corrections]
    /\ UNCHANGED <<pipeVars, alignVars, dedupeVars, restVars, a_again, matchVars,
                   grading_corrections, cacheVars, sessions>>

NextUpsert == insert_or_update_grading_result

SpecUpsert == InitUpsert /\ [][NextUpsert]_vars

\* the results the page has stored: one row per student, as first inserted
StoredResults ==
    {rows \in [1..(MaxResultId - 1) -> {ResultRow(i, ResultKey(i), sc, sc, fb, fb) :
                                            i \in 1..MaxResultId, sc \in DbScores, fb \in DbFeedbacks}] :
        \A i \in 1..(MaxResultId - 1) : rows[i].id = i}

InitCorrection ==
    /\ grading_results \in StoredResults
    /\ grading_corrections = <<>> /\ db_call = NoCall /\ db_before = NoTables
    /\ rubric = <<>> /\ PipelineIdle /\ AlignIdle /\ DedupeIdle /\ RestIdle
    /\ RealignIdle /\ MatchIdle /\ CacheIdle /\ RaceIdle

\* lines 186-197: the call starts and SELECTs the row by id
SelectResult ==
    /\ db_call.pc = "idle" /\ db_call.n < MaxDbCalls
    /\ \E id \in 1..MaxResultId, score \in DbScores, feedback \in DbFeedbacks :
          db_call' = [op |-> "update_grading_result_with_correction", pc |-> "selected",
                      args |-> [id |-> id, score |-> score, feedback |-> feedback],
                      record |-> SelectSeq(grading_results, LAMBDA r : r.id = id),
                      returned |-> 0, raised |-> FALSE, n |-> db_call.n + 1]
    /\ db_before' = [results |-> grading_results, corrections |-> grading_corrections]
    /\ UNCHANGED <<pipeVars, alignVars, dedupeVars, restVars, a_again, matchVars,
                   grading_results, grading_corrections, cacheVars, sessions>>

\* lines 198-199: raise ValueError
RaiseNotFound ==
    /\ db_call.pc = "selected" /\ db_call.record = <<>>
    /\ db_call' = [db_call EXCEPT !.pc = "idle", !.raised = TRUE]
    /\ UNCHANGED <<pipeVars, alignVars, dedupeVars, restVars, a_again, matchVars,
                   grading_results, grading_corrections, db_before, cacheVars, sessions>>

\* lines 202-213 and 138-176: insert_grading_correction INSERTs the row and commits
insert_grading_correction ==
    /\ db_call.pc = "selected" /\ db_call.record # <<>>
    /\ grading_corrections' =
          Append(grading_corrections,
                 [key |-> db_call.record[1].key,
                  old_score |-> db_call.record[1].new_score, new_score |-> db_call.args.score,
                  old_feedback |-> db_call.record[1].new_feedback,
                  new_feedback |-> db_call.args.feedback])
    /\ db_call' = [db_call EXCEPT !.pc = "logged"]
    /\ UNCHANGED <<pipeVars, alignVars, dedupeVars, restVars, a_again, matchVars,
                   grading_results, db_before, cacheVars, sessions>>

\* lines 216-226: UPDATE grading_results ... WHERE id = %s, and commit
ApplyUpdate ==
    /\ db_call.pc = "logged"
    /\ grading_results' =
          [i \in 1..Len(grading_results) |->
              IF grading_results[i].id = db_call.args.id
              THEN [grading_results[i] EXCEPT !.new_score = db_call.args.score,
                                              !.new_feedback = db_call.args.feedback]
              ELSE grading_results[i]]
    /\ db_call' = [db_call EXCEPT !.pc = "idle"]
    /\ UNCHANGED <<pipeVars, alignVars, dedupeVars, restVars, a_again, matchVars,
                   grading_corrections, db_before, cacheVars, sessions>>

update_grading_result_with_correction ==
    SelectResult \/ RaiseNotFound \/ insert_grading_correction \/ ApplyUpdate

NextCorrection == update_grading_result_with_correction

SpecCorrection == InitCorrection /\ [][NextCorrection]_vars

----------------------------------------------------------------------------
(* The page's alignment applied to rubric_scores that are already aligned *)

InitRealign ==
    /\ rubric \in Rubrics
    /\ a_breakdown \in PageBreakdowns
    /\ a_fn = "none" /\ a_out = [raised |-> FALSE, aligned |-> <<>>]
    /\ PipelineIdle /\ DedupeIdle /\ RestIdle /\ MoreIdle

\* 2_grading_result.py line 217: _align_to_rubric(rubric_list, out["rubric_scores"], out["total_score"])
AlignAgain ==
    /\ a_fn # "none" /\ ~a_out.raised /\ ~a_again.run
    /\ a_again' = [run |-> TRUE] @@
                     _align_to_rubric(rubric, PyList(a_out.aligned),
                                      PyInt(RecomputeTotal(a_out.aligned)))
    /\ UNCHANGED <<pipeVars, alignVars, dedupeVars, restVars, matchVars, dbVars, cacheVars,
                   sessions>>

NextRealign == AlignAndClamp \/ AlignToRubric \/ AlignAgain

SpecRealign == InitRealign /\ [][NextRealign]_vars

----------------------------------------------------------------------------
(* The grading cache of the results page: pages/2_grading_result.py *)

Students == {IntStr(i) : i \in 1..MaxResultId}

Languages == {<<"E", "n">>, <<"D", "e">>}

\* what the session holds: one question whose rubric has one criterion worth
\* MaxPts, the uploaded students, and the answer language
PageInputs ==
    {[prof |-> [questions |-> <<[id |-> <<"q">>, points |-> MaxPts]>>],
      students |-> st, lang |-> l] :
        st \in (SUBSET Students) \ {{}}, l \in Languages}

\* _signature: the SHA-256 of the canonical (sort_keys) JSON text of the three
\* inputs; different inputs are taken to give different digests
_signature(prof_data, students_data, language) ==
    <<"sha256", [lang |-> language, prof |-> prof_data, students |-> students_data]>>

\* the keys f"{student}_{q['id']}" of the tasks of the inputs
TasksOf(inputs) ==
    {st \o <<"_">> \o inputs.prof.questions[j].id :
        st \in inputs.students, j \in 1..Len(inputs.prof.questions)}

AllTasks == UNION {TasksOf(inputs) : inputs \in PageInputs}

InitCache ==
    /\ k_inputs \in PageInputs
    /\ k_cache = NoCache
    /\ k_graded = [t \in AllTasks |-> 0]
    /\ k_last = NoRun
    /\ rubric = <<>> /\ PipelineIdle /\ AlignIdle /\ DedupeIdle /\ RestIdle
    /\ RealignIdle /\ MatchIdle /\ DbIdle /\ RaceIdle

\* lines 157-240: every task is graded and upserted, and the cache is set to
\* the new signature and results; the generator decides the scores
GradeAll(sig) ==
    /\ \A t \in TasksOf(k_inputs) : k_graded[t] < MaxSaves
    /\ \E sc \in [TasksOf(k_inputs) -> 0..MaxPts] :
          k_cache' = [signature |-> sig,
                      results |-> [t \in TasksOf(k_inputs) |->
                                      [score |-> sc[t], original_score |-> sc[t]]]]
    /\ k_graded' = [t \in AllTasks |->
                      IF t \in TasksOf(k_inputs) THEN k_graded[t] + 1 ELSE k_graded[t]]

\* a run of the page that grades whatever the cache holds
RerunAlways ==
    /\ GradeAll(_signature(k_inputs.prof, k_inputs.students, k_inputs.lang))
    /\ k_last' = [ran |-> TRUE, cache |-> k_cache, counts |-> k_graded]
    /\ UNCHANGED <<pipeVars, alignVars, dedupeVars, restVars, a_again, matchVars, dbVars,
                   k_inputs, sessions>>

\* a run of the page, lines 155-244
Rerun ==
    /\ \E sig \in {_signature(k_inputs.prof, k_inputs.students, k_inputs.lang)} :
          IF k_cache.signature # sig
          THEN GradeAll(sig)
          ELSE UNCHANGED <<k_cache, k_graded>>
    /\ k_last' = [ran |-> TRUE, cache |-> k_cache, counts |-> k_graded]
    /\ UNCHANGED <<pipeVars, alignVars, dedupeVars, restVars, a_again, matchVars, dbVars,
                   k_inputs, sessions>>

\* update_score_callback, lines 136-138: a slider of the page last shown is
\* moved; the script is then due to run again
SliderMoved ==
    /\ k_last.ran
    /\ \E t \in DOMAIN k_cache.results, v \in 0..MaxPts :
          /\ v # k_cache.results[t].score
          /\ k_cache' = [k_cache EXCEPT !.results[t].score = v]
    /\ k_last' = [k_last EXCEPT !.ran = FALSE]
    /\ UNCHANGED <<pipeVars, alignVars, dedupeVars, restVars, a_again, matchVars, dbVars,
                   k_inputs, k_graded, sessions>>

\* another upload or another answer language: st.session_state changes
\* before the page runs again
InputsChanged ==
    /\ k_inputs' \in PageInputs \ {k_inputs}
    /\ k_last' = [k_last EXCEPT !.ran = FALSE]
    /\ UNCHANGED <<pipeVars, alignVars, dedupeVars, restVars, a_again, matchVars, dbVars,
                   k_cache, k_graded, sessions>>

NextCache == Rerun \/ SliderMoved \/ InputsChanged

SpecCache == InitCache /\ [][NextCache]_vars

----------------------------------------------------------------------------
(* The alignments and _total_possible on rubrics whose points are malformed *)

\* _total_possible(rubric_list): sum(int(r.get("points", 0)) for r in rubric_list)
_total_possible(rubric_list) ==
    LET pts == [i \in 1..Len(rubric_list) |-> PagePoints(Get(rubric_list[i], "points", PyInt(0)))]
    IN  IF \E i \in 1..Len(pts) : ~pts[i].ok
        THEN [raised |-> TRUE, total |-> 0]
        ELSE [raised |-> FALSE, total |-> SumSeq([i \in 1..Len(pts) |-> pts[i].v])]

\* points as a hand-written rubric may hold them: no key, null, text that is
\* no number, text that is one, an integer, and the non-integer number 1.5
LoosePoints == {Absent, PyNone, PyStr(<<"x">>), PyStr(<<"2">>), PyInt(1), PyFloat(3)}

LooseCriterion(name, pts) ==
    IF pts = Absent THEN PyDict([criteria |-> PyStr(name)])
    ELSE PyDict([criteria |-> PyStr(name), points |-> pts])

LooseRubrics ==
    SeqsUpTo({LooseCriterion(n, p) : n \in RubricNames, p \in LoosePoints}, MaxRubric) \ {<<>>}

InitLoose ==
    /\ rubric \in LooseRubrics
    /\ a_breakdown \in PageBreakdowns
    /\ a_fn = "none" /\ a_out = [raised |-> FALSE, aligned |-> <<>>]
    /\ PipelineIdle /\ DedupeIdle /\ RestIdle /\ MoreIdle

\* lines 254 and 281: the total possible of the rubric
TotalPossiblePage ==
    /\ a_fn = "none"
    /\ a_fn' = "_total_possible"
    /\ a_out' = [aligned |-> <<>>] @@ _total_possible(rubric)
    /\ UNCHANGED <<pipeVars, a_breakdown, dedupeVars, restVars, moreVars>>

NextLoose == AlignAndClamp \/ AlignToRubric \/ TotalPossiblePage

SpecLoose == InitLoose /\ [][NextLoose]_vars

----------------------------------------------------------------------------
(* De-duplication applied to its own output *)

TextChars == {"a", "A", "!", " ", "\n"}

Texts == {PyStr(s) : s \in SeqsUpTo(TextChars, MaxText)}

InitDedupe ==
    /\ d_text \in Texts
    /\ d_once = <<>> /\ d_twice = <<>> /\ d_pc = 0
    /\ rubric = <<>> /\ PipelineIdle /\ AlignIdle /\ RestIdle /\ MoreIdle

\* line 218: the first pass over the generator's feedback
DedupeOnce ==
    /\ d_pc = 0
    /\ d_once' = _dedupe_feedback(d_text)
    /\ d_twice' = d_twice
    /\ d_pc' = 1
    /\ UNCHANGED <<pipeVars, alignVars, d_text, restVars, moreVars>>

\* line 287: every rerun of the page passes the stored text through again
DedupeAgain ==
    /\ d_pc = 1
    /\ d_twice' = _dedupe_feedback(PyStr(d_once))
    /\ d_pc' = 2
    /\ UNCHANGED <<pipeVars, alignVars, d_text, d_once, restVars, moreVars>>

NextDedupe == DedupeOnce \/ DedupeAgain

SpecDedupe == InitDedupe /\ [][NextDedupe]_vars

----------------------------------------------------------------------------
(* The results page: pages/2_grading_result.py, one student and one question *)

\* sum(item["score"] for item in stored["rubric_scores"])
StoredTotal(scores) == SumSeq([i \in 1..Len(scores) |-> scores[i].score])

\* sum(item["original_score"] ...): the scores as they were at the last save
StoredOriginalTotal(scores) == SumSeq([i \in 1..Len(scores) |-> scores[i].original_score])

InitPage ==
    /\ rubric \in Rubrics
    /\ p_pc = "Grading" /\ p_scores = <<>> /\ p_db = NoRow
    /\ PipelineIdle /\ AlignIdle /\ DedupeIdle /\ TwinIdle /\ CoerceIdle /\ ShareIdle /\ MoreIdle

\* lines 216-234: align the generator's output, upsert the row, cache the result
GradeAndStore ==
    /\ p_pc = "Grading"
    /\ \E b \in PageBreakdowns, claimed \in ResponseTotals :
       \E out \in {_align_to_rubric(rubric, b, claimed)} :
       \E total_score \in {RecomputeTotal(out.aligned)} :
          IF out.raised
          THEN p_pc' = "Raised" /\ UNCHANGED <<p_scores, p_db>>
          ELSE /\ p_pc' = "Shown"
               /\ p_scores' = [i \in 1..Len(out.aligned) |->
                                 [score |-> ScoreOf(out.aligned[i]),
                                  original_score |-> ScoreOf(out.aligned[i])]]
               /\ p_db' = [old_score |-> total_score, new_score |-> total_score,
                           corrections |-> <<>>]
    /\ UNCHANGED <<pipeVars, alignVars, dedupeVars, twinVars, coerceVars, shareVars, moreVars>>

\* lines 276-279 and 136-138: the slider of criterion rubric_idx, which runs
\* from 0 to int(points), is moved and its callback stores the new value
update_score_callback ==
    /\ p_pc \in {"Shown", "Edited", "Saved"}
    /\ \E rubric_idx \in 1..Len(p_scores) :
       \E value \in 0..PagePoints(Get(rubric[rubric_idx], "points", PyInt(0))).v :
          p_scores' = [p_scores EXCEPT ![rubric_idx].score = value]
    /\ p_pc' = "Edited"
    /\ UNCHANGED <<p_db, pipeVars, alignVars, dedupeVars, twinVars, coerceVars, shareVars, moreVars>>

\* lines 289-293 with update_grading_result_with_correction, for a given total
SaveChangesWith(new_total_score) ==
    /\ p_pc \in {"Shown", "Edited", "Saved"}
    /\ Len(p_db.corrections) < MaxSaves
    /\ p_db' = [p_db EXCEPT !.new_score = new_total_score,
                            !.corrections = Append(@, [old_score |-> p_db.new_score,
                                                       new_score |-> new_total_score])]
    /\ p_scores' = [i \in 1..Len(p_scores) |->
                      [p_scores[i] EXCEPT !.original_score = p_scores[i].score]]
    /\ p_pc' = "Saved"
    /\ UNCHANGED <<pipeVars, alignVars, dedupeVars, twinVars, coerceVars, shareVars, moreVars>>

\* the save persisting the scores as they were before the edits
SaveChangesStale == SaveChangesWith(StoredOriginalTotal(p_scores))

\* lines 289-293: the "save changes" button
SaveChanges == SaveChangesWith(StoredTotal(p_scores))

NextPage == GradeAndStore \/ update_score_callback \/ SaveChanges

SpecPage == InitPage /\ [][NextPage]_vars

----------------------------------------------------------------------------
(* The two score coercions applied to raw scores *)

\* raw scores: integers, floats by the half, and short texts
CoerceInputs ==
    {PyInt(n) : n \in (0 - MaxRaw)..MaxRaw}
        \cup {PyFloat(h) : h \in (0 - 2 * MaxRaw)..(2 * MaxRaw)}
        \cup {PyStr(x) : x \in SeqsUpTo({"1", "2", "5", ".", "-", " "}, MaxDigits)}

InitCoerce ==
    /\ c_in \in CoerceInputs
    /\ c_fn = "none" /\ c_out = 0
    /\ rubric = <<>>
    /\ PipelineIdle /\ AlignIdle /\ DedupeIdle /\ TwinIdle /\ PageIdle /\ ShareIdle /\ MoreIdle

\* text_grader.py line 163: s = _as_int(s_raw, 0)
AsInt ==
    /\ c_fn = "none"
    /\ c_fn' = "_as_int"
    /\ c_out' = _as_int(c_in, 0)
    /\ UNCHANGED <<pipeVars, alignVars, dedupeVars, twinVars, c_in, pageVars, shareVars, moreVars>>

\* 2_grading_result.py lines 102-103
PageCoerce ==
    /\ c_fn = "none"
    /\ c_fn' = "_align_to_rubric"
    /\ c_out' = PageScore(c_in)
    /\ UNCHANGED <<pipeVars, alignVars, dedupeVars, twinVars, c_in, pageVars, shareVars, moreVars>>

NextCoerce == AsInt \/ PageCoerce

SpecCoerce == InitCoerce /\ [][NextCoerce]_vars

----------------------------------------------------------------------------
(* Sharing: database/postgres_handler.py, calls made one after another.     *)
(* A row of result_shares is <<owner, target, result id>>; its created_at   *)
(* column is written and never read by these two methods.                   *)

OwnerEmails == {"owner@uni"}

TargetEmails == {"p@uni", "q@uni"}

ShareRows == OwnerEmails \X TargetEmails \X (1..MaxResultId)

\* the INSERT without the SELECT before it
InsertShare(rows, row) == Append(rows, row)

\* lines 286-306: SELECT 1 ... ; INSERT if nothing was fetched
SelectThenInsertShare(rows, row) ==
    IF \E i \in 1..Len(rows) : rows[i] = row THEN rows ELSE Append(rows, row)

\* lines 315-323: DELETE ... WHERE the three columns match
DeleteShare(rows, row) == SelectSeq(rows, LAMBDA x : x # row)

InitShare ==
    /\ result_shares = <<>> /\ s_call = [op |-> "none", row |-> <<>>] /\ s_before = <<>>
    /\ rubric = <<>>
    /\ PipelineIdle /\ AlignIdle /\ DedupeIdle /\ TwinIdle /\ CoerceIdle /\ PageIdle /\ MoreIdle

share_result ==
    /\ \E row \in ShareRows :
          /\ result_shares' = SelectThenInsertShare(result_shares, row)
          /\ s_call' = [op |-> "share_result", row |-> row]
    /\ s_before' = result_shares
    /\ UNCHANGED <<pipeVars, alignVars, dedupeVars, twinVars, coerceVars, pageVars, moreVars>>

revoke_share ==
    /\ \E row \in ShareRows :
          /\ result_shares' = DeleteShare(result_shares, row)
          /\ s_call' = [op |-> "revoke_share", row |-> row]
    /\ s_before' = result_shares
    /\ UNCHANGED <<pipeVars, alignVars, dedupeVars, twinVars, coerceVars, pageVars, moreVars>>

NextShare == share_result \/ revoke_share

SpecShare == InitShare /\ [][NextShare]_vars

----------------------------------------------------------------------------
(* share_result called from several sessions, each on its own connection *)

Sessions == 1..MaxSessions

NotCalling == [pc |-> "idle", row |-> <<>>, found |-> FALSE]

InitShareRace ==
    /\ sessions = [s \in Sessions |-> NotCalling]
    /\ result_shares = <<>> /\ s_call = [op |-> "none", row |-> <<>>] /\ s_before = <<>>
    /\ rubric = <<>>
    /\ PipelineIdle /\ AlignIdle /\ DedupeIdle /\ TwinIdle /\ CoerceIdle /\ PageIdle
    /\ RealignIdle /\ MatchIdle /\ DbIdle /\ CacheIdle

\* lines 286-294: the SELECT of a call sees the rows committed so far
CheckShared(s) ==
    /\ sessions[s].pc = "idle"
    /\ \E row \in ShareRows :
          sessions' = [sessions EXCEPT ![s] =
                          [pc |-> "checked", row |-> row,
                           found |-> \E i \in 1..Len(result_shares) : result_shares[i] = row]]
    /\ UNCHANGED <<pipeVars, alignVars, dedupeVars, restVars, a_again, matchVars, dbVars,
                   cacheVars>>

\* lines 295-307: INSERT when nothing was fetched, then commit; the sources
\* declare no unique constraint on result_shares
InsertAndCommit(s) ==
    /\ sessions[s].pc = "checked"
    /\ result_shares' = IF sessions[s].found THEN result_shares
                        ELSE InsertShare(result_shares, sessions[s].row)
    /\ sessions' = [sessions EXCEPT ![s].pc = "returned"]
    /\ UNCHANGED <<pipeVars, alignVars, dedupeVars, twinVars, coerceVars, pageVars,
                   s_call, s_before, a_again, matchVars, dbVars, cacheVars>>

NextShareRace == \E s \in Sessions : CheckShared(s) \/ InsertAndCommit(s)

SpecShareRace == InitShareRace /\ [][NextShareRace]_vars

----------------------------------------------------------------------------
(* Properties *)

ScoresOf(al) == [i \in 1..Len(al) |-> ScoreOf(al[i])]

Aligned == a_fn # "none" /\ ~a_out.raised

\* C1: every aligned score produced by either alignment lies between 0 and
\* the points of the rubric criterion at the same index.
C1_ScoresWithinBounds ==
    Aligned =>
        \A i \in 1..Len(a_out.aligned) :
            /\ i <= Len(rubric)
            /\ 0 <= ScoreOf(a_out.aligned[i])
            /\ ScoreOf(a_out.aligned[i]) <= rubric[i].v.points.v

\* a raw score above the maximum was matched and cut down to the maximum
C1_Witness ==
    /\ a_fn = "_align_and_clamp"
    /\ ~a_out.raised
    /\ a_out.sanity.over_allocated # <<>>
    /\ \E i \in 1..Len(a_out.aligned) :
          /\ rubric[i].v.points.v > 0
          /\ ScoreOf(a_out.aligned[i]) = rubric[i].v.points.v

\* C2: the aligned list has one entry per rubric criterion, and entry i
\* carries the criterion of rubric[i], whatever the raw entries were.
C2_CountAndOrder ==
    Aligned =>
        /\ Len(a_out.aligned) = Len(rubric)
        /\ \A i \in 1..Len(rubric) :
              a_out.aligned[i].v.criteria = rubric[i].v.criteria

\* two different criteria, and two raw entries with one label that matches
\* neither of them
C2_Witness ==
    /\ Aligned
    /\ Len(rubric) = 2
    /\ rubric[1].v.criteria # rubric[2].v.criteria
    /\ Len(a_breakdown.v) = 2
    /\ a_breakdown.v[1].v.criteria = a_breakdown.v[2].v.criteria
    /\ a_breakdown.v[1].v.criteria = PyStr(Str2("c", "d"))
    /\ Len(a_out.aligned) = 2

Returned == pc = "Done"

\* C3: the total_score of every returned result is the sum of the scores in
\* its rubric_scores; a claimed total that differs from the sum is not returned.
C3_TotalIsSum ==
    Returned =>
        /\ result.total_score = SumSeq(ScoresOf(result.rubric_scores))
        /\ (raw # NoRaw /\ ModelTotal(parsed) # SumSeq(ScoresOf(result.rubric_scores)))
              => result.total_score # ModelTotal(parsed)

\* the generator claimed a total, the scores sum to something else
C3_Witness ==
    /\ Returned
    /\ raw # NoRaw
    /\ "total_score" \in DOMAIN parsed.v
    /\ result.total_score > 0
    /\ ModelTotal(parsed) # result.total_score

\* C4: with a reported total and no per-criterion breakdown, the aligned
\* scores sum to the reported total, rounded and clamped to [0, total possible].
C4_ProportionalFallback ==
    ( /\ Returned
      /\ raw # NoRaw
      /\ "total_score" \in DOMAIN parsed.v
      /\ ModelBreakdown(parsed) = PyList(<<>>)
      /\ TotalPossible(rubric) > 0 )
    => SumSeq(ScoresOf(result.rubric_scores))
          = Max(0, Min(ModelTotal(parsed), TotalPossible(rubric)))

\* C5: de-duplicating the output of a de-duplication changes nothing.
C5_DedupeIdempotent == d_pc = 2 => d_twice = d_once

\* the first pass dropped a repeated line
C5_Witness ==
    /\ d_pc = 2
    /\ Len(StrippedLines(d_once)) < Len(StrippedLines(d_text.v))
    /\ Len(StrippedLines(d_once)) >= 2

\* C7: the post-processing of grade_answer returns for every raw response;
\* no exception reaches the caller.
C7_NeverRaises == pc # "Raised"

NotAnObject == raw.t = "prose" \/ (raw.t = "json" /\ raw.v.t # "dict")

\* C8: a response that cannot be parsed into a JSON object yields a complete
\* result: a zero for each rubric criterion, in rubric order, and total 0.
C8_UnparsableScoresZero ==
    (NotAnObject /\ pc \in {"Done", "Raised"}) =>
        /\ pc = "Done"
        /\ result.rubric_scores = ZeroScores(rubric)
        /\ result.total_score = 0

\* C9: after a parse failure the feedback carries an explanatory message (it
\* is more than the score header) and the sanity report records the failure
\* (it holds an entry beyond the alignment counters).
C9_ParseFailureExplained ==
    (Returned /\ raw.t = "prose") =>
        /\ result.feedback # <<>>
        /\ result.feedback # _feedback_header(rubric, result.rubric_scores, result.total_score)
        /\ \E k \in DOMAIN result.debug.sanity : k \notin DOMAIN EmptySanity

PhaseStep ==
    /\ pc = "Received" => pc' \in {"Parsed", "Failed"}
    /\ pc = "Parsed" => pc' = "Aligned"
    /\ pc = "Failed" => pc' \in {"Aligned", "Composed", "Done"}
    /\ pc = "Aligned" => pc' = "Composed"
    /\ pc = "Composed" => pc' = "Done"
    /\ pc = "Done" => pc' = "Done"
    /\ pc' = "Failed" => pc = "Received"

\* C10: a run goes Received, Parsed, Aligned, Composed, Done in that order;
\* Failed is entered from Received only; every run that has received a
\* response reaches Done.
C10_PhasesInOrder ==
    /\ [][PhaseStep]_vars
    /\ (pc = "Received") ~> (pc = "Done")

\* the feedback text up to its first empty line: the header, when there is one
RECURSIVE HeaderPart(_)
HeaderPart(text) ==
    IF text = <<>> THEN <<>>
    ELSE IF Len(text) >= 2 /\ text[1] = "\n" /\ text[2] = "\n" THEN <<>>
    ELSE <<Head(text)>> \o HeaderPart(Tail(text))

\* the last position of character c in s, 0 when there is none
LastIndex(s, c) ==
    LET at == {i \in 1..Len(s) : s[i] = c}
    IN  IF at = {} THEN 0 ELSE CHOOSE i \in at : \A j \in at : j <= i

\* "n/m" read back as <<n, m>>
ReadFraction(s) ==
    LET k == LastIndex(s, "/")
    IN  <<DigitsVal(SubSeq(s, 1, k - 1)), DigitsVal(SubSeq(s, k + 1, Len(s)))>>

\* "- name: n/m" read back
ReadCriterionLine(ln) ==
    LET k == LastIndex(ln, ":")
        f == ReadFraction(SubSeq(ln, k + 2, Len(ln)))
    IN  [name |-> SubSeq(ln, 3, k - 1), score |-> f[1], max |-> f[2]]

\* what a reader sees in the header of a feedback text
ShownHeader(text) ==
    LET ls == SplitLines(HeaderPart(text), <<>>)
        tl == ReadFraction(SubSeq(ls[1], 10, Len(ls[1]) - 2))
    IN  [total |-> tl[1], possible |-> tl[2],
         crits |-> [i \in 1..(Len(ls) - 2) |-> ReadCriterionLine(ls[i + 2])]]

\* C11: in the feedback header the total shown is the sum of the scores on
\* the criterion lines, there is one criterion line per rubric criterion in
\* rubric order, and the denominator shown is the sum of the maxima shown.
C11_HeaderConsistent ==
    (Returned /\ raw # NoRaw /\ include_header) =>
        LET h == ShownHeader(result.feedback)
        IN  /\ h.total = SumSeq([i \in 1..Len(h.crits) |-> h.crits[i].score])
            /\ h.possible = SumSeq([i \in 1..Len(h.crits) |-> h.crits[i].max])
            /\ Len(h.crits) = Len(rubric)
            /\ \A i \in 1..Len(rubric) : h.crits[i].name = rubric[i].v.criteria.v

\* a header of two criterion lines with a non-zero total, followed by the
\* generator's own feedback, for a response that claimed another total
C11_Witness ==
    /\ Returned /\ raw # NoRaw /\ include_header
    /\ Len(rubric) = 2
    /\ rubric[1].v.criteria # rubric[2].v.criteria
    /\ result.total_score > 0
    /\ ModelTotal(parsed) # result.total_score
    /\ Len(result.feedback) > Len(HeaderPart(result.feedback))
    /\ ShownHeader(result.feedback).total = result.total_score

\* C12: after slider edits and a save, the new_score of the stored row is
\* the sum of the current per-criterion scores, and each of those scores is
\* between 0 and the points of its criterion.
C12_SavedTotalIsSum ==
    p_pc = "Saved" =>
        /\ p_db.new_score = SumSeq([i \in 1..Len(p_scores) |-> p_scores[i].score])
        /\ Len(p_scores) = Len(rubric)
        /\ \A i \in 1..Len(p_scores) :
              0 <= p_scores[i].score /\ p_scores[i].score <= rubric[i].v.points.v

\* two saves, the second of which changed the stored total, on two criteria
C12_Witness ==
    /\ p_pc = "Saved"
    /\ Len(rubric) = 2
    /\ Len(p_db.corrections) = 2
    /\ p_db.corrections[2].old_score # p_db.corrections[2].new_score
    /\ p_db.new_score # p_db.old_score
    /\ p_db.new_score > 0

\* C13: two responses with the same non-empty rubric_scores and the same
\* feedback that differ in total_score only give the same aligned scores,
\* the same total and the same feedback text, in grade_answer and in the
\* page's alignment.
C13_ClaimedTotalIgnored ==
    t_out # <<>> =>
        /\ t_out[1].text.raised = t_out[2].text.raised
        /\ t_out[1].text.rubric_scores = t_out[2].text.rubric_scores
        /\ t_out[1].text.total_score = t_out[2].text.total_score
        /\ t_out[1].text.feedback = t_out[2].text.feedback
        /\ t_out[1].page = t_out[2].page

\* one response claims the total that the scores sum to and the other one
\* does not: the sanity reports differ, and the total is not zero
C13_Witness ==
    /\ t_out # <<>>
    /\ ~t_out[1].text.raised /\ ~t_out[1].page.raised
    /\ t_out[1].text.total_score > 0
    /\ ModelTotal(t_raw[1].v) = t_out[1].text.total_score
    /\ ModelTotal(t_raw[2].v) # t_out[2].text.total_score
    /\ t_out[1].text.sanity # t_out[2].text.sanity
    /\ t_out[1].text.feedback # <<>>

\* C14: a rubric with no criteria makes grade_answer fail towards its caller
\* instead of returning a result, and a rubric with criteria never does.
C14_EmptyRubricFails ==
    pc \in {"Done", "Raised"} => (pc = "Raised" <=> rubric = <<>>)

\* the points of a criterion that are no number: missing, null, or text that
\* does not denote one
Unreadable(r) ==
    \/ "points" \notin DOMAIN r.v
    \/ r.v.points.t = "none"
    \/ r.v.points.t = "str" /\ ~FloatOfStr(r.v.points.v).ok

ReadablePoints(r) == IF Unreadable(r) THEN 0 ELSE _as_int(r.v.points, 0)

\* C15: a criterion whose points are no number counts as having 0 points:
\* neither alignment nor the total possible fails, every criterion gets its
\* aligned entry, and the entry of such a criterion scores 0.
C15_MalformedPointsAreZero ==
    a_fn # "none" =>
        /\ ~a_out.raised
        /\ a_fn = "_total_possible" =>
              a_out.total = SumSeq([i \in 1..Len(rubric) |-> ReadablePoints(rubric[i])])
        /\ a_fn # "_total_possible" =>
              /\ Len(a_out.aligned) = Len(rubric)
              /\ \A i \in 1..Len(rubric) :
                    Unreadable(rubric[i]) => ScoreOf(a_out.aligned[i]) = 0

RowsOf(rows) == {rows[i] : i \in 1..Len(rows)}

\* C16: share_result for a triple that already has a row leaves the table
\* as it was, and after any series of share_result and revoke_share calls no
\* two rows hold the same (owner, target, result id).
C16_ShareIdempotent ==
    /\ (s_call.op = "share_result" /\ s_call.row \in RowsOf(s_before))
          => result_shares = s_before
    /\ \A i \in 1..Len(result_shares) : \A j \in 1..Len(result_shares) :
          result_shares[i] = result_shares[j] => i = j

\* share_result called again for the triple of the latest of several rows
C16_Witness ==
    /\ s_call.op = "share_result"
    /\ s_call.row \in RowsOf(s_before)
    /\ Len(result_shares) >= 2
    /\ result_shares[Len(result_shares)] = s_call.row

\* the raw entries as the claim sees them: label, normalised, and score, coerced
LabelAt(j) == _normalize(a_breakdown.v[j].v.criteria)

ScoreAt(j) == _as_int(a_breakdown.v[j].v.score, 0)

Labelled == {j \in 1..Len(a_breakdown.v) : LabelAt(j) # <<>>}

\* a label's score is that of the last entry carrying the label
ScoreOfLabel(l) ==
    ScoreAt(CHOOSE j \in Labelled : LabelAt(j) = l /\ \A k \in Labelled : LabelAt(k) = l => k <= j)

NameOf(i) == _normalize(rubric[i].v.criteria)

ExactLabels(i) == {LabelAt(j) : j \in {k \in Labelled : LabelAt(k) = NameOf(i)}}

\* the labels most similar to the name of criterion i, if they reach the cutoff
BestLabels(i) ==
    {LabelAt(j) : j \in {k \in Labelled :
        /\ Ratio(LabelAt(k), NameOf(i))[1] * 10 >= FuzzyCutoffTenths * Ratio(LabelAt(k), NameOf(i))[2]
        /\ \A m \in Labelled :
              ~RatioLess(Ratio(LabelAt(k), NameOf(i)), Ratio(LabelAt(m), NameOf(i)))}}

Bounded(sc, i) == Max(0, Min(sc, rubric[i].v.points.v))

Unmatched(i) == ExactLabels(i) = {} /\ BestLabels(i) = {}

\* C17: each criterion takes the score of the entry whose normalised label
\* equals its normalised name; failing that, the score of a most similar
\* label whose ratio reaches the cutoff; failing that, 0. unknown_criteria
\* lists, in rubric order, exactly the criteria that matched neither way.
C17_ExactThenFuzzyThenZero ==
    (a_fn = "_align_and_clamp" /\ ~a_out.raised /\ rubric # <<>>) =>
        /\ \A i \in 1..Len(rubric) :
              IF ExactLabels(i) # {}
              THEN ScoreOf(a_out.aligned[i]) = Bounded(ScoreOfLabel(NameOf(i)), i)
              ELSE IF BestLabels(i) # {}
              THEN \E l \in BestLabels(i) :
                      ScoreOf(a_out.aligned[i]) = Bounded(ScoreOfLabel(l), i)
              ELSE ScoreOf(a_out.aligned[i]) = 0
        /\ \A un \in {SelectSeq([i \in 1..Len(rubric) |-> i], Unmatched)} :
              a_out.sanity.unknown_criteria = [k \in 1..Len(un) |-> rubric[un[k]].v.criteria]

\* a criterion with no exact match and two labels above the cutoff, the more
\* similar one listed second, whose score is the one taken
C17_Witness ==
    /\ a_fn = "_align_and_clamp" /\ ~a_out.raised
    /\ \E i \in 1..Len(rubric) :
          /\ ExactLabels(i) = {} /\ BestLabels(i) # {}
          /\ Len(a_breakdown.v) = 2
          /\ LabelAt(1) \notin BestLabels(i)
          /\ Ratio(LabelAt(1), NameOf(i))[1] * 10 >= FuzzyCutoffTenths * Ratio(LabelAt(1), NameOf(i))[2]
          /\ ScoreOf(a_out.aligned[i]) > 0
          /\ ScoreOf(a_out.aligned[i]) # Bounded(ScoreAt(1), i)

\* the score resolved for criterion i before it is clamped
ResolvedAt(i) ==
    IF ExactLabels(i) # {} THEN ScoreOfLabel(NameOf(i))
    ELSE IF BestLabels(i) # {}
         THEN ScoreOfLabel(CHOOSE l \in BestLabels(i) : \A x \in BestLabels(i) : ~StrLess(l, x))
         ELSE 0

Over(i) == ResolvedAt(i) > rubric[i].v.points.v

\* C18: over_allocated holds, in rubric order, one entry (criterion, score
\* before clamping, maximum) for exactly the criteria whose resolved score
\* exceeded the maximum, and the aligned score of each of them is the maximum.
C18_OverAllocatedRecorded ==
    (a_fn = "_align_and_clamp" /\ ~a_out.raised /\ rubric # <<>>) =>
        \A ov \in {SelectSeq([i \in 1..Len(rubric) |-> i], Over)} :
            /\ a_out.sanity.over_allocated =
                  [k \in 1..Len(ov) |->
                      [criteria |-> rubric[ov[k]].v.criteria, score |-> ResolvedAt(ov[k]),
                       max |-> rubric[ov[k]].v.points.v]]
            /\ \A k \in 1..Len(ov) :
                  ScoreOf(a_out.aligned[ov[k]]) = rubric[ov[k]].v.points.v

\* maxima 2 and 1, a resolved score within the first and above the second:
\* aligned 2 and 1, total 3, one over_allocated entry
C18_Witness ==
    /\ a_fn = "_align_and_clamp" /\ ~a_out.raised
    /\ Len(rubric) = 2
    /\ rubric[1].v.points.v = 2 /\ rubric[2].v.points.v = 1
    /\ ScoresOf(a_out.aligned) = <<2, 1>>
    /\ Len(a_out.sanity.over_allocated) = 1
    /\ a_out.sanity.over_allocated[1].max = 1

\* C19: the sanity report holds the generator's total and the recomputed
\* total exactly when the response carried a total_score that differs from
\* the recomputed sum; without a total_score, or with an equal one, it holds
\* neither.
C19_MismatchRecordedIffReported ==
    (Returned /\ raw # NoRaw) =>
        /\ "model_total" \in DOMAIN result.debug.sanity
              <=> ( /\ "total_score" \in DOMAIN parsed.v
                    /\ ModelTotal(parsed) # result.total_score )
        /\ "model_total" \in DOMAIN result.debug.sanity
              => /\ result.debug.sanity.model_total = ModelTotal(parsed)
                 /\ "recomputed_total" \in DOMAIN result.debug.sanity
                 /\ result.debug.sanity.recomputed_total = result.total_score

\* a float given in halves, rounded to the nearest integer, a half going up
RoundHalfUp(h) == (h + 1) \div 2

\* C20: coercion returns an integer unchanged, rounds a float to the nearest
\* integer with an exact half going up, and reads a numeric text as the
\* number it denotes before rounding it the same way.
C20_RoundsHalfUp ==
    c_fn # "none" =>
        /\ c_in.t = "int" => c_out = c_in.v
        /\ c_in.t = "float" => c_out = RoundHalfUp(c_in.v)
        /\ (c_in.t = "str" /\ FloatOfStr(c_in.v).ok)
              => c_out = RoundHalfUp(FloatOfStr(c_in.v).v)

\* a raw score that is no number and cannot be read as one
NonNumeric(x) ==
    \/ x.t \in {"none", "list", "dict"}
    \/ x.t = "str" /\ ~FloatOfStr(x.v).ok

\* the last entry carrying label l
LastWith(l) == CHOOSE j \in Labelled : LabelAt(j) = l /\ \A k \in Labelled : LabelAt(k) = l => k <= j

\* C21: an entry whose score is no number and cannot be read as one counts
\* as 0 for the criterion that takes it and makes coerced_types true;
\* coerced_types stays false when every entry's score is an integer.
C21_NonNumericFlagged ==
    (a_fn = "_align_and_clamp" /\ ~a_out.raised) =>
        /\ (\E j \in 1..Len(a_breakdown.v) : NonNumeric(a_breakdown.v[j].v.score))
              => a_out.sanity.coerced_types
        /\ \A i \in 1..Len(a_out.aligned) :
              (ExactLabels(i) # {} /\ NonNumeric(a_breakdown.v[LastWith(NameOf(i))].v.score))
                  => ScoreOf(a_out.aligned[i]) = 0
        /\ (\A j \in 1..Len(a_breakdown.v) : a_breakdown.v[j].v.score.t = "int")
              => ~a_out.sanity.coerced_types

\* the words of a line: its maximal runs of word characters, case folded
RECURSIVE WordsOf(_, _)
WordsOf(ln, cur) ==
    IF ln = <<>> THEN (IF cur = <<>> THEN <<>> ELSE <<cur>>)
    ELSE IF IsWord(Head(ln)) THEN WordsOf(Tail(ln), cur \o Lower(<<Head(ln)>>))
    ELSE (IF cur = <<>> THEN <<>> ELSE <<cur>>) \o WordsOf(Tail(ln), <<>>)

RECURSIVE JoinWords(_)
JoinWords(ws) ==
    IF ws = <<>> THEN <<>>
    ELSE IF Len(ws) = 1 THEN ws[1]
    ELSE ws[1] \o <<" ">> \o JoinWords(Tail(ws))

\* the normalised form of a line: its words, one space between them
NormalForm(ln) == JoinWords(WordsOf(ln, <<>>))

InputLines == StrippedLines(d_text.v)

FirstOfItsForm(i) == \A j \in 1..(i - 1) : NormalForm(InputLines[j]) # NormalForm(InputLines[i])

\* C22: the de-duplicated text is made of the trimmed non-empty input lines
\* that are the first of their normalised form, in input order and in their
\* own spelling; no two lines of it share a normalised form.
C22_KeepsFirstOfEachForm ==
    d_pc >= 1 =>
        /\ \A kept \in {SelectSeq([i \in 1..Len(InputLines) |-> i], FirstOfItsForm)} :
              d_once = JoinLines([k \in 1..Len(kept) |-> InputLines[kept[k]]])
        /\ \A out \in {StrippedLines(d_once)} :
              \A i, j \in 1..Len(out) : NormalForm(out[i]) = NormalForm(out[j]) => i = j

\* three lines, the third a differently spelled repeat of the first with
\* another line between them: the first two are kept
C22_Witness ==
    /\ d_pc >= 1
    /\ Len(InputLines) = 3
    /\ InputLines[1] # InputLines[3]
    /\ NormalForm(InputLines[1]) = NormalForm(InputLines[3])
    /\ NormalForm(InputLines[1]) # NormalForm(InputLines[2])
    /\ d_once = InputLines[1] \o <<"\n">> \o InputLines[2]

\* the generator's feedback, trimmed, with its repeated lines removed
DedupedBody == _dedupe_feedback(PyStr(Strip(ModelFeedback(parsed))))

\* C23: the feedback text the page ends up with is the header, a blank line
\* and the de-duplicated body, and is the de-duplicated body alone when the
\* header is left out.
C23_HeaderBlankLineDedupedBody ==
    (d_pc = 1 /\ raw # NoRaw) =>
        d_once = IF include_header
                 THEN _feedback_header(rubric, result.rubric_scores, result.total_score)
                          \o (IF DedupedBody # <<>> THEN <<"\n", "\n">> \o DedupedBody ELSE <<>>)
                 ELSE DedupedBody

\* similarity of key j to the looked-up name, as <<2 * matches, total length>>
KeyRatio(j) == Ratio(m_keys[j], m_word)

Candidates == {j \in 1..Len(m_keys) : KeyRatio(j)[1] * 10 >= FuzzyCutoffTenths * KeyRatio(j)[2]}

\* the candidates no other candidate is more similar than
TopCandidates == {j \in Candidates : \A k \in Candidates : ~RatioLess(KeyRatio(j), KeyRatio(k))}

\* C24: among the labels that reach the cutoff the most similar one is
\* taken, and of several equally similar ones the one listed first.
C24_TieGoesToFirstListed ==
    m_out.run =>
        IF Candidates = {} THEN m_out.match = <<>>
        ELSE m_out.match = <<m_keys[CHOOSE j \in TopCandidates : \A k \in TopCandidates : j <= k]>>

\* the row of a table with a given id, as a list of zero or one rows
RowWithId(rows, id) == SelectSeq(rows, LAMBDA r : r.id = id)

CorrectionCall == db_call.op = "update_grading_result_with_correction"

\* C25: a correction of an existing result appends one correction row (old
\* values: the result's new values before the call, new values: the
\* arguments) and sets the result's new values to the arguments; for an
\* unknown id the call raises and both tables stay as they were; and the
\* committed tables never hold a call's correction row without that call's
\* update of the result.
C25_CorrectionWithUpdate ==
    CorrectionCall =>
        \A was \in {RowWithId(db_before.results, db_call.args.id)},
           now \in {RowWithId(grading_results, db_call.args.id)} :
            /\ (db_call.pc = "idle" /\ was # <<>>) =>
                  /\ ~db_call.raised
                  /\ grading_corrections =
                        Append(db_before.corrections,
                               [key |-> was[1].key,
                                old_score |-> was[1].new_score, new_score |-> db_call.args.score,
                                old_feedback |-> was[1].new_feedback,
                                new_feedback |-> db_call.args.feedback])
                  /\ now = <<[was[1] EXCEPT !.new_score = db_call.args.score,
                                            !.new_feedback = db_call.args.feedback]>>
            /\ (db_call.pc = "idle" /\ was = <<>>) =>
                  /\ db_call.raised
                  /\ grading_results = db_before.results
                  /\ grading_corrections = db_before.corrections
            /\ grading_corrections # db_before.corrections =>
                  /\ now # <<>>
                  /\ now[1].new_score = db_call.args.score
                  /\ now[1].new_feedback = db_call.args.feedback

\* C26: the table holds at most one row per (student_id, assignment_no,
\* question); a call for a stored key returns the stored row's id, replaces
\* new_score and new_feedback and keeps old_score and old_feedback; a call for
\* a new key adds one row.
C26_UpsertOneRowPerKey ==
    /\ \A i, j \in 1..Len(grading_results) :
          grading_results[i].key = grading_results[j].key => i = j
    /\ db_call.op = "insert_or_update_grading_result" =>
          \A was \in {SelectSeq(db_before.results, LAMBDA r : r.key = db_call.args.key)} :
             IF was # <<>>
             THEN /\ db_call.returned = was[1].id
                  /\ Len(grading_results) = Len(db_before.results)
                  /\ \A i \in 1..Len(grading_results) :
                        grading_results[i] =
                          IF db_before.results[i].key = db_call.args.key
                          THEN [was[1] EXCEPT !.new_score = db_call.args.score,
                                              !.new_feedback = db_call.args.feedback]
                          ELSE db_before.results[i]
             ELSE /\ Len(grading_results) = Len(db_before.results) + 1
                  /\ \A i \in 1..Len(db_before.results) : grading_results[i] = db_before.results[i]
                  /\ grading_results[Len(grading_results)].key = db_call.args.key
                  /\ grading_results[Len(grading_results)].id = db_call.returned

\* a second call for a stored key with another score and feedback: the row
\* keeps its id and old values and takes the new ones
C26_Witness ==
    /\ db_call.op = "insert_or_update_grading_result"
    /\ \E i \in 1..Len(db_before.results) :
          /\ db_before.results[i].key = db_call.args.key
          /\ db_before.results[i].new_score # db_call.args.score
          /\ db_before.results[i].new_feedback # db_call.args.feedback
          /\ grading_results[i].old_score # grading_results[i].new_score
          /\ grading_results[i].old_feedback # grading_results[i].new_feedback
          /\ db_call.returned = db_before.results[i].id
    /\ Len(grading_results) = 2

\* C27: aligning already aligned scores against the same rubric gives the
\* same score for every criterion.
C27_RealignSameScores ==
    a_again.run =>
        /\ ~a_again.raised
        /\ ScoresOf(a_again.aligned) = ScoresOf(a_out.aligned)

\* C28: on the same rubric and raw breakdown the grader's and the page's
\* alignment return the same list of (criterion, score) pairs.
C28_AlignmentsAgree ==
    a_fn \in {"_align_and_clamp", "_align_to_rubric"} =>
        \A g \in {_align_and_clamp(rubric, a_breakdown)},
           p \in {_align_to_rubric(rubric, a_breakdown, PyInt(0))} :
            /\ ~a_out.raised
            /\ a_out.aligned = g.aligned
            /\ a_out.aligned = p.aligned

\* the signature of the inputs differs from the one cached before the run
SignatureChanged ==
    k_last.cache.signature # _signature(k_inputs.prof, k_inputs.students, k_inputs.lang)

C30_NoDuplicateShare ==
    \A i, j \in 1..Len(result_shares) : result_shares[i] = result_shares[j] => i = j

====
